---- MODULE Spec2Model ----
(***************************************************************************)
(* The frame scheduler of hello_triangle: Framework::run_loop's event      *)
(* callback (resize / redraw / close), Framework::render_frame and the     *)
(* FrameCounter.  Time is web_time::Instant in whole milliseconds.  f32    *)
(* values are exact rationals [n, d] (numerator, denominator).             *)
(***************************************************************************)
EXTENDS Integers, Sequences, FiniteSets

VARIABLES
    now,              \* the clock read by Instant::now(), in ms
    status,           \* "constructed" | "running" | "exited" | "panicked"
    frame_counter,    \* Framework.frame_counter : FrameCounter
    config,           \* Framework.config (width, height)
    surface_config,   \* the configuration last applied by surface.configure
    last_frame_time,  \* run_loop's local `last_frame_time` (the gate)
    title,            \* the window title, as tenths of FPS
    redraw_pending,   \* window.request_redraw() was called and not yet served
    hist,             \* history: render cycles and update() calls so far
    log,              \* history: what the most recent handler did
    scen              \* history: progress along the 5 ms redraw schedule

vars == <<now, status, frame_counter, config, surface_config, last_frame_time,
          title, redraw_pending, hist, log, scen>>

----------------------------------------------------------------------------
(* Bounds of the model *)

MaxTime == 2070

MaxDim == 2

CapHorizon == 1023

FineHorizon == 70

RenderTime == 5

\* amounts by which the clock advances between two events: fine steps that
\* reach both sides of the gate's period (28 < 33 = 28 + 5 < 35) during the
\* first FineHorizon ms, whole sample windows at any time
FineSteps == {5, 28}

TickSteps == FineSteps \cup {1000}

\* time spent inside render_frame between the gate's now and update()'s now
RenderDurations == {0, RenderTime}

\* sizes the window system reports
Dims == 0..MaxDim

\* results of surface.get_current_texture(): Ok or a wgpu::SurfaceError
AcquireResults == {"Ok", "Timeout", "Outdated", "Lost", "OutOfMemory"}

----------------------------------------------------------------------------
(* Program constants *)

FPS == 30

MILLIS_PER_SEC == 1000

FRAME_DURATION == MILLIS_PER_SEC \div FPS

----------------------------------------------------------------------------
(* f32 values as rationals *)

Rat(n, d) == [n |-> n, d |-> d]

Zero == Rat(0, 1)

RatEq(a, b) == a.n * b.d = b.n * a.d

\* mutant of FormatTenths: the value is truncated to one decimal
FormatTenthsTruncated(x) == (10 * x.n) \div x.d

\* format!("{:.1}", x): x rounded to one decimal, kept as a number of tenths
FormatTenths(x) == (20 * x.n + x.d) \div (2 * x.d)

----------------------------------------------------------------------------
(* FrameCounter *)

FrameCounterNew(t) ==
    [last_printed_instant |-> t,
     frame_count |-> 0,
     last_fps |-> Zero,
     last_frame_time |-> Zero]

\* mutants of WindowElapsed: the window closes at exactly one second; the
\* threshold 1.0 is compared with milliseconds
WindowElapsedInclusive(elapsed_ms) == elapsed_ms >= MILLIS_PER_SEC

WindowElapsedMillis(elapsed_ms) == elapsed_ms > 1

\* the test `elapsed_secs > 1.0` of update(), on milliseconds
WindowElapsed(elapsed_ms) == elapsed_ms > MILLIS_PER_SEC

\* mutant of FrameCounterUpdate: the sample is computed before the increment
FrameCounterUpdateStale(self, new_instant) ==
    LET elapsed_ms == new_instant - self.last_printed_instant
    IN  IF WindowElapsed(elapsed_ms)
        THEN [last_printed_instant |-> new_instant,
              frame_count |-> 0,
              last_fps |-> Rat(self.frame_count * MILLIS_PER_SEC, elapsed_ms),
              last_frame_time |-> Rat(elapsed_ms, self.frame_count)]
        ELSE [self EXCEPT !.frame_count = @ + 1]

FrameCounterUpdate(self, new_instant) ==
    LET frame_count == self.frame_count + 1
        elapsed_ms == new_instant - self.last_printed_instant
    IN  IF WindowElapsed(elapsed_ms)
        THEN [last_printed_instant |-> new_instant,
              frame_count |-> 0,
              last_fps |-> Rat(frame_count * MILLIS_PER_SEC, elapsed_ms),
              last_frame_time |-> Rat(elapsed_ms, frame_count)]
        ELSE [self EXCEPT !.frame_count = frame_count]

\* mutant of GetLastFps: the read takes the sample out of the counter
GetLastFpsTake(self) ==
    [value |-> self.last_fps, self |-> [self EXCEPT !.last_fps = Zero]]

\* a getter: the value returned and the FrameCounter after the call
GetLastFps(self) == [value |-> self.last_fps, self |-> self]

GetLastFrameTime(self) == [value |-> self.last_frame_time, self |-> self]

----------------------------------------------------------------------------
(* Framework *)

\* mutant of Max1: no clamp
Max1Identity(x) == x

\* u32::max(1)
Max1(x) == IF x >= 1 THEN x ELSE 1

Clamp(w, h) == [width |-> Max1(w), height |-> Max1(h)]

\* mutant of GateOpen: the duration is compared with FPS
GateOpenFps(duration) == duration >= FPS

\* the gate of the redraw handler
GateOpen(duration) == duration >= FRAME_DURATION

\* mutant of GateFire: the gate moves to the ideal next tick
GateFireIdeal(t, last_fired) == last_fired + FRAME_DURATION

\* the gate fires at t: `last_frame_time = now`
GateFire(t, last_fired) == t

\* mutant of RenderFrame: a failed acquisition is ignored
RenderFrameIgnoreError(self, result, new_instant) ==
    [ops |-> <<"get_current_texture", "submit", "present", "update">>,
     frame_counter |-> FrameCounterUpdate(self, new_instant),
     returned |-> TRUE]

\* mutant of RenderFrame: update() is called before the frame is submitted
RenderFrameUpdateFirst(self, result, new_instant) ==
    IF result = "Ok"
    THEN [ops |-> <<"get_current_texture", "update", "submit", "present">>,
          frame_counter |-> FrameCounterUpdate(self, new_instant),
          returned |-> TRUE]
    ELSE [ops |-> <<"get_current_texture", "panic">>,
          frame_counter |-> self,
          returned |-> FALSE]

\* mutant of RenderFrame: the frame is kept instead of presented
RenderFrameForget(self, result, new_instant) ==
    IF result = "Ok"
    THEN [ops |-> <<"get_current_texture", "submit", "update">>,
          frame_counter |-> FrameCounterUpdate(self, new_instant),
          returned |-> TRUE]
    ELSE [ops |-> <<"get_current_texture", "panic">>,
          frame_counter |-> self,
          returned |-> FALSE]

\* render_frame with get_current_texture returning result and update()
\* reading the clock at new_instant: the calls made, in order, the
\* FrameCounter afterwards, and whether it returned (or panicked in expect)
RenderFrame(self, result, new_instant) ==
    IF result = "Ok"
    THEN [ops |-> <<"get_current_texture", "submit", "present", "update">>,
          frame_counter |-> FrameCounterUpdate(self, new_instant),
          returned |-> TRUE]
    ELSE [ops |-> <<"get_current_texture", "panic">>,
          frame_counter |-> self,
          returned |-> FALSE]

----------------------------------------------------------------------------
(* History *)

Count(seq, x) == Cardinality({i \in DOMAIN seq : seq[i] = x})

Has(seq, x) == Count(seq, x) > 0

\* repeat: the handler before this one was a resize reporting the same size
NoLog ==
    [kind |-> "none", reported |-> <<>>, repeat |-> FALSE, duration |-> 0,
     acquire |-> "none", ops |-> <<>>, update_at |-> 0]

\* last_cycle: when the last render cycle started (-1: none yet);
\* window_start, calls: the sample window's start and the update() calls in it;
\* committed: a sample was committed at least once;
\* reported: the size last reported by the window system;
\* submits, presents, updates: the calls made so far;
\* outstanding: targets acquired and neither presented nor dropped;
\* cap_start, cap_count: the render cycles at cap_start <= t < cap_start + 1000
NoHist ==
    [last_cycle |-> -1, window_start |-> 0, calls |-> 0, committed |-> FALSE,
     reported |-> <<>>, submits |-> 0, presents |-> 0, updates |-> 0,
     outstanding |-> 0, cap_start |-> -1, cap_count |-> 0]

ScenOff == [on |-> FALSE, t0 |-> 0, k |-> 0, cycles |-> 0]

\* the 5 ms schedule: the k-th redraw (from 0) arrives 5*k ms after loop start
ScenStep(fired) ==
    IF scen.on /\ scen.k < 10 /\ now = scen.t0 + 5 * scen.k
    THEN [scen EXCEPT !.k = @ + 1, !.cycles = @ + (IF fired THEN 1 ELSE 0)]
    ELSE ScenOff

\* update() moved the sample window
Committing(before, after) ==
    after.last_printed_instant # before.last_printed_instant

\* targets a render cycle with these calls leaves acquired: a successful
\* get_current_texture acquires one, present and drop give one back
Outstanding(ops, result) ==
    (IF result = "Ok" THEN Count(ops, "get_current_texture") ELSE 0)
        - Count(ops, "present") - Count(ops, "drop")

\* a render cycle at t opens a new 1000 ms interval when the last one is over
NewInterval(t) ==
    hist.cap_start = -1 \/ t - hist.cap_start >= MILLIS_PER_SEC

HistCycle(t, result, frame, before, new_instant) ==
    LET cycle ==
            [hist EXCEPT
                !.last_cycle = t,
                !.submits = @ + Count(frame.ops, "submit"),
                !.presents = @ + Count(frame.ops, "present"),
                !.updates = @ + Count(frame.ops, "update"),
                !.outstanding = @ + Outstanding(frame.ops, result),
                !.cap_start = IF NewInterval(t) THEN t ELSE @,
                !.cap_count = IF NewInterval(t) THEN 1 ELSE @ + 1]
    IN  IF ~frame.returned
        THEN cycle
        ELSE IF Committing(before, frame.frame_counter)
        THEN [cycle EXCEPT !.window_start = new_instant, !.calls = 0,
                           !.committed = TRUE]
        ELSE [cycle EXCEPT !.calls = @ + 1]

----------------------------------------------------------------------------
(* The event loop *)

\* Framework::new: the state after construction, for every initial window size
Init ==
    /\ now = 0
    /\ status = "constructed"
    /\ frame_counter = FrameCounterNew(0)
    /\ \E w \in Dims, h \in Dims :
          /\ config = Clamp(w, h)
          /\ surface_config = Clamp(w, h)
          /\ log = [NoLog EXCEPT !.kind = "new", !.reported = <<w, h>>,
                                 !.ops = <<"configure">>]
          /\ hist = [NoHist EXCEPT !.reported = <<w, h>>]
    /\ last_frame_time = 0
    /\ title = 0
    /\ redraw_pending = FALSE
    /\ scen = ScenOff

\* the clock advances while the loop waits for an event
Tick(d) ==
    /\ status \in {"constructed", "running"}
    /\ now + d <= MaxTime
    /\ d \in FineSteps => now + d <= FineHorizon
    /\ now' = now + d
    /\ UNCHANGED <<status, frame_counter, config, surface_config, last_frame_time,
                   title, redraw_pending, hist, log, scen>>

\* mutant of RunLoop: the gate starts open
RunLoopGateOpen ==
    /\ status = "constructed"
    /\ status' = "running"
    /\ last_frame_time' = now - FRAME_DURATION
    /\ log' = [NoLog EXCEPT !.kind = "run_loop"]
    /\ scen' = [on |-> TRUE, t0 |-> now, k |-> 0, cycles |-> 0]
    /\ UNCHANGED <<now, frame_counter, config, surface_config, title,
                   redraw_pending, hist>>

\* run_loop up to event_loop.run: the gate starts at Instant::now()
RunLoop ==
    /\ status = "constructed"
    /\ status' = "running"
    /\ last_frame_time' = now
    /\ log' = [NoLog EXCEPT !.kind = "run_loop"]
    /\ scen' = [on |-> TRUE, t0 |-> now, k |-> 0, cycles |-> 0]
    /\ UNCHANGED <<now, frame_counter, config, surface_config, title,
                   redraw_pending, hist>>

\* mutant of Resized: the new size is stored and not applied to the surface
ResizedNoConfigure(w, h) ==
    /\ status = "running"
    /\ config' = Clamp(w, h)
    /\ redraw_pending' = TRUE
    /\ log' = [NoLog EXCEPT !.kind = "resize",
                            !.reported = <<w, h>>,
                            !.repeat = (log.kind = "resize"
                                        /\ log.reported = <<w, h>>),
                            !.ops = <<"request_redraw">>]
    /\ hist' = [hist EXCEPT !.reported = <<w, h>>]
    /\ scen' = ScenOff
    /\ UNCHANGED <<now, status, frame_counter, last_frame_time, title,
                   surface_config>>

\* mutant of Resized: a resize to the stored size does nothing
ResizedSkipSame(w, h) ==
    /\ status = "running"
    /\ config' = Clamp(w, h)
    /\ surface_config' = config'
    /\ redraw_pending' = (redraw_pending \/ config' # config)
    /\ log' = [NoLog EXCEPT !.kind = "resize",
                            !.reported = <<w, h>>,
                            !.repeat = (log.kind = "resize"
                                        /\ log.reported = <<w, h>>),
                            !.ops = IF config' # config
                                    THEN <<"configure", "request_redraw">>
                                    ELSE <<>>]
    /\ hist' = [hist EXCEPT !.reported = <<w, h>>]
    /\ scen' = ScenOff
    /\ UNCHANGED <<now, status, frame_counter, last_frame_time, title>>

\* WindowEvent::Resized(new_size)
Resized(w, h) ==
    /\ status = "running"
    /\ config' = Clamp(w, h)
    /\ surface_config' = config'
    /\ redraw_pending' = TRUE
    /\ log' = [NoLog EXCEPT !.kind = "resize",
                            !.reported = <<w, h>>,
                            !.repeat = (log.kind = "resize"
                                        /\ log.reported = <<w, h>>),
                            !.ops = <<"configure", "request_redraw">>]
    /\ hist' = [hist EXCEPT !.reported = <<w, h>>]
    /\ scen' = ScenOff
    /\ UNCHANGED <<now, status, frame_counter, last_frame_time, title>>

\* WindowEvent::RedrawRequested; get_current_texture returns result and
\* render_frame takes dur ms before update() reads the clock
RedrawRequested(result, dur) ==
    LET got == GetLastFps(frame_counter)
        duration == now - last_frame_time
        fired == GateOpen(duration)
        frame == RenderFrame(got.self, result, now + dur)
    IN  /\ status = "running"
        /\ title' = FormatTenths(got.value)
        /\ scen' = ScenStep(fired)
        /\ IF ~fired
           THEN /\ dur = 0
                /\ frame_counter' = got.self
                /\ redraw_pending' = TRUE
                /\ log' = [NoLog EXCEPT !.kind = "redraw", !.duration = duration,
                              !.ops = <<"set_title", "request_redraw">>]
                /\ UNCHANGED <<now, status, last_frame_time, hist>>
           ELSE /\ last_frame_time' = GateFire(now, last_frame_time)
                /\ frame_counter' = frame.frame_counter
                /\ hist' = HistCycle(now, result, frame, got.self, now + dur)
                /\ IF frame.returned
                   THEN /\ now + dur <= MaxTime
                        /\ now' = now + dur
                        /\ redraw_pending' = TRUE
                        /\ log' = [NoLog EXCEPT !.kind = "redraw", !.duration = duration,
                                      !.acquire = result,
                                      !.ops = <<"set_title">> \o frame.ops
                                              \o <<"request_redraw">>,
                                      !.update_at = now + dur]
                        /\ UNCHANGED status
                   ELSE /\ dur = 0
                        /\ status' = "panicked"
                        /\ redraw_pending' = FALSE
                        /\ log' = [NoLog EXCEPT !.kind = "redraw", !.duration = duration,
                                      !.acquire = result,
                                      !.ops = <<"set_title">> \o frame.ops]
                        /\ UNCHANGED now
        /\ UNCHANGED <<config, surface_config>>

\* mutant of CloseRequested: the loop is not told to exit
CloseRequestedIgnored ==
    /\ status = "running"
    /\ log' = [NoLog EXCEPT !.kind = "close"]
    /\ scen' = ScenOff
    /\ UNCHANGED <<now, status, frame_counter, config, surface_config,
                   last_frame_time, title, redraw_pending, hist>>

\* WindowEvent::CloseRequested => target.exit()
CloseRequested ==
    /\ status = "running"
    /\ status' = "exited"
    /\ log' = [NoLog EXCEPT !.kind = "close", !.ops = <<"exit">>]
    /\ scen' = ScenOff
    /\ UNCHANGED <<now, frame_counter, config, surface_config, last_frame_time,
                   title, redraw_pending, hist>>

Next ==
    \/ \E d \in TickSteps : Tick(d)
    \/ RunLoop
    \/ \E w \in Dims, h \in Dims : Resized(w, h)
    \/ \E result \in AcquireResults, dur \in RenderDurations :
          RedrawRequested(result, dur)
    \/ CloseRequested

Spec == Init /\ [][Next]_vars

\* one gate period passes after the loop started or the gate fired, so that
\* the next redraw finds the gate just open; for CapHorizon ms
TickCap ==
    /\ status = "running"
    /\ last_frame_time = now
    /\ now + FRAME_DURATION <= CapHorizon
    /\ Tick(FRAME_DURATION)

NextCap ==
    \/ TickCap
    \/ RunLoop
    \/ \E result \in AcquireResults : RedrawRequested(result, 0)

SpecCap == Init /\ [][NextCap]_vars

----------------------------------------------------------------------------
(* Properties *)

\* a step that handles one redraw notification
RedrawStep ==
    /\ log'.kind = "redraw"
    /\ \E result \in AcquireResults, dur \in RenderDurations :
          RedrawRequested(result, dur)

\* a redraw step whose render cycle called FrameCounter.update()
UpdateStep == Has(log'.ops, "update") /\ RedrawStep

AcquireFailed(l) == l.kind = "redraw" /\ l.acquire \notin {"none", "Ok"}

\* update() committed the sample of n calls over elapsed_ms, at instant t
Sampled(after, n, elapsed_ms, t) ==
    /\ after.last_printed_instant = t
    /\ after.frame_count = 0
    /\ RatEq(after.last_fps, Rat(n * MILLIS_PER_SEC, elapsed_ms))
    /\ RatEq(after.last_frame_time, Rat(elapsed_ms, n))

\* update() only counted the frame
OnlyCounted(before, after) == after = [before EXCEPT !.frame_count = @ + 1]

\* C1: a render cycle runs on a redraw notification only when
\* now - last_frame_time >= FRAME_DURATION, and then at least FRAME_DURATION
\* after the start of the previous render cycle.
C1_GateSeparation ==
    [][RedrawStep /\ Has(log'.ops, "get_current_texture")
         => /\ now - last_frame_time >= FRAME_DURATION
            /\ hist.last_cycle # -1 => now - hist.last_cycle >= FRAME_DURATION]_vars

\* C1 witness: a second render cycle ran exactly FRAME_DURATION after the first
C1_Witness ==
    /\ log.kind = "redraw"
    /\ Has(log.ops, "get_current_texture")
    /\ log.duration = FRAME_DURATION
    /\ frame_counter.frame_count >= 2

\* C2: every redraw notification results in exactly one request for the next
\* redraw, whether the gate was open or closed.
C2_OneRequestPerRedraw ==
    [][RedrawStep => Count(log'.ops, "request_redraw") = 1 /\ redraw_pending']_vars

\* C3: the stored configuration always has width >= 1 and height >= 1; after
\* construction and after a resize, a reported 0 is stored as 1 and any other
\* reported dimension is stored unchanged.
C3_ConfigClamped ==
    /\ config.width >= 1
    /\ config.height >= 1
    /\ log.kind \in {"new", "resize"} =>
          /\ config.width = (IF log.reported[1] = 0 THEN 1 ELSE log.reported[1])
          /\ config.height = (IF log.reported[2] = 0 THEN 1 ELSE log.reported[2])

\* C3 witness: resize(0,0) was handled and (1,1) is stored
C3_Witness ==
    /\ log.kind = "resize"
    /\ log.reported = <<0, 0>>
    /\ config = [width |-> 1, height |-> 1]

\* C4 as stated: update() commits a sample whenever the time since the sample
\* window's start is >= 1.0 second, also at exactly 1.0 second.
C4_CommitsAtOneSecond ==
    [][UpdateStep /\ now' - frame_counter.last_printed_instant >= MILLIS_PER_SEC
         => Sampled(frame_counter', frame_counter.frame_count + 1,
                    now' - frame_counter.last_printed_instant, now')]_vars

\* C4 amended: update() commits a sample whenever the time since the sample
\* window's start is more than 1.0 second; at exactly 1.0 second it only
\* increments frame_count.
C4_CommitsAfterOneSecond ==
    [][UpdateStep =>
         LET elapsed_ms == now' - frame_counter.last_printed_instant
         IN  /\ elapsed_ms > MILLIS_PER_SEC =>
                   Sampled(frame_counter', frame_counter.frame_count + 1,
                           elapsed_ms, now')
             /\ elapsed_ms = MILLIS_PER_SEC =>
                   OnlyCounted(frame_counter, frame_counter')]_vars

\* C4 witness: update() ran exactly 1.0 second into the window and did not commit
C4_Witness ==
    /\ Has(log.ops, "update")
    /\ log.update_at - frame_counter.last_printed_instant = MILLIS_PER_SEC
    /\ frame_counter.frame_count >= 1

\* C5: a commit stores last_fps = n / elapsed_seconds and
\* last_frame_time = elapsed_ms / n, n the update() calls since the previous
\* commit (the committing one included) and elapsed the time since the
\* previous window start, and leaves frame_count at 0.
C5_CommittedValues ==
    [][UpdateStep /\ Committing(frame_counter, frame_counter')
         => Sampled(frame_counter', hist.calls + 1, now' - hist.window_start,
                    now')]_vars

\* C5 witness: a sample of at least two update() calls was just committed
C5_Witness ==
    /\ hist.committed
    /\ Has(log.ops, "update")
    /\ log.update_at = frame_counter.last_printed_instant
    /\ frame_counter.frame_count = 0
    /\ frame_counter.last_fps.n >= 2 * MILLIS_PER_SEC

\* C6: update() called less than 1.0 second into the window changes
\* frame_count only, by one.
C6_NoCommitBeforeOneSecond ==
    [][UpdateStep /\ now' - frame_counter.last_printed_instant < MILLIS_PER_SEC
         => OnlyCounted(frame_counter, frame_counter')]_vars

\* C6 witness: update() ran less than 1.0 second into the window
C6_Witness ==
    /\ Has(log.ops, "update")
    /\ log.update_at - frame_counter.last_printed_instant < MILLIS_PER_SEC
    /\ log.update_at > frame_counter.last_printed_instant
    /\ frame_counter.frame_count >= 1

\* C7: the getters leave the FrameCounter as it is, and return 0.0 in every
\* state before the first commit.
C7_GettersPure ==
    /\ GetLastFps(frame_counter).self = frame_counter
    /\ GetLastFrameTime(frame_counter).self = frame_counter
    /\ ~hist.committed =>
          /\ RatEq(GetLastFps(frame_counter).value, Zero)
          /\ RatEq(GetLastFrameTime(frame_counter).value, Zero)

\* C7 witness: several update() calls and no commit yet
C7_Witness == ~hist.committed /\ frame_counter.frame_count >= 2

\* C8 as stated: ten redraws 5 ms apart from the loop's start run exactly two
\* render cycles.
C8_TwoCycles == scen.on /\ scen.k = 10 => scen.cycles = 2

\* C8 amended: ten redraws 5 ms apart from the loop's start run exactly one
\* render cycle, on the redraw 35 ms after the start; the other nine are skipped.
C8_OneCycle ==
    scen.on /\ scen.k = 10 =>
        /\ scen.cycles = 1
        /\ last_frame_time = scen.t0 + 35
        /\ hist.last_cycle = scen.t0 + 35

\* C8 witness: the ten redraws of the schedule were handled
C8_Witness == scen.on /\ scen.k = 10

\* C9: a failed acquisition does not crash the loop; the surface is
\* reconfigured and the acquisition retried once.
C9_ReconfigureAndRetry ==
    AcquireFailed(log) =>
        /\ Has(log.ops, "configure")
        /\ Count(log.ops, "get_current_texture") = 2
        /\ ~Has(log.ops, "panic")

\* C10: a failed acquisition ends the cycle with an error, and nothing is
\* submitted, nothing presented, and FrameCounter.update() is not called.
C10_FailureSkipsCycle ==
    [][RedrawStep /\ AcquireFailed(log')
         => /\ status' # "running"
            /\ ~Has(log'.ops, "submit")
            /\ ~Has(log'.ops, "present")
            /\ ~Has(log'.ops, "update")
            /\ frame_counter' = frame_counter
            /\ hist'.calls = hist.calls]_vars

\* C10 witness: an acquisition failed after update() had been called before
C10_Witness ==
    /\ AcquireFailed(log)
    /\ log.acquire = "Lost"
    /\ frame_counter.frame_count >= 1

\* the calls of the render cycle in a handler's log
CycleOps(l) ==
    SelectSeq(l.ops, LAMBDA o : o \notin {"set_title", "request_redraw"})

\* targets held after the first i calls of a handler
Held(l, i) ==
    Outstanding(SubSeq(l.ops, 1, i), l.acquire)

\* a size as the claims say it is stored: 0 becomes 1
Stored(reported) ==
    [width |-> IF reported[1] = 0 THEN 1 ELSE reported[1],
     height |-> IF reported[2] = 0 THEN 1 ELSE reported[2]]

\* a step that handles one resize notification
ResizeStep ==
    /\ log'.kind = "resize"
    /\ \E w \in Dims, h \in Dims : Resized(w, h)

\* the title shows x to one decimal: it is within 0.05 of x
Shows(tenths, x) ==
    LET diff == 10 * x.n - tenths * x.d
    IN  2 * (IF diff >= 0 THEN diff ELSE -diff) <= x.d

\* C11: a completed render cycle calls get_current_texture, submit, present
\* and update in this order, each once; the update() calls, the presented
\* targets and the submissions made so far are equally many.
C11_CycleOrder ==
    /\ log.kind = "redraw" /\ log.acquire = "Ok" =>
          CycleOps(log) = <<"get_current_texture", "submit", "present", "update">>
    /\ hist.updates = hist.presents
    /\ hist.presents = hist.submits

\* C11 witness: two render cycles were completed
C11_Witness == log.kind = "redraw" /\ log.acquire = "Ok" /\ hist.updates >= 2

\* C12: at most one target is held at any point of a handler, and none when
\* the handler is over, so none at the next acquisition.
C12_OneTargetOutstanding ==
    /\ \A i \in 0..Len(log.ops) : Held(log, i) \in {0, 1}
    /\ Held(log, Len(log.ops)) = 0
    /\ hist.outstanding = 0

\* C12 witness: a second target was acquired
C12_Witness == hist.presents >= 2 /\ Held(log, 2) = 1

\* C13: at every acquisition the configuration applied to the surface is the
\* stored one, and its size is the last reported size with 0 replaced by 1.
C13_AcquireAgainstCurrentConfig ==
    [][RedrawStep /\ Has(log'.ops, "get_current_texture")
         => /\ surface_config = config
            /\ config = Stored(hist.reported)]_vars

\* C13 witness: a target was acquired after size (0,0) was reported
C13_Witness ==
    /\ log.kind = "redraw"
    /\ log.acquire = "Ok"
    /\ hist.reported = <<0, 0>>
    /\ surface_config = [width |-> 1, height |-> 1]

\* C14: a close notification ends the loop with no target held, and after it
\* nothing is handled: no render cycle, no reconfigure, no redraw request.
C14_CloseIsTerminal ==
    [][/\ log'.kind = "close" /\ CloseRequested =>
              status' = "exited" /\ hist'.outstanding = 0
       /\ log.kind = "close" =>
              UNCHANGED <<status, frame_counter, config, surface_config,
                          last_frame_time, title, redraw_pending, hist, log>>]_vars

\* C14 witness: the loop was closed after a render cycle
C14_Witness == status = "exited" /\ log.kind = "close" /\ hist.presents >= 1

\* C15 as stated: a second resize to the same size leaves the stored
\* configuration as it is and does nothing that can be observed.
C15_SecondResizeSilent ==
    [][\A w \in Dims, h \in Dims :
          log.kind = "resize" /\ log.reported = <<w, h>> /\ Resized(w, h)
              => config' = config /\ log'.ops = <<>>]_vars

\* C15 amended: a second resize to the same size leaves the stored and the
\* applied configuration as they are; it applies the configuration to the
\* surface again and requests a redraw.
C15_SecondResizeSameConfig ==
    [][\A w \in Dims, h \in Dims :
          log.kind = "resize" /\ log.reported = <<w, h>> /\ Resized(w, h)
              => /\ config' = config
                 /\ surface_config' = surface_config
                 /\ log'.ops = <<"configure", "request_redraw">>
                 /\ redraw_pending']_vars

\* C15 witness: the same size was reported twice in a row
C15_Witness == log.kind = "resize" /\ log.repeat

\* C16 as stated: with the gate open the title is set after the render cycle
\* and shows the FPS held after it; with the gate closed only the redraw
\* request happens.
C16_TitleAfterCycle ==
    [][RedrawStep =>
         /\ Has(log'.ops, "update") => Shows(title', frame_counter'.last_fps)
         /\ ~Has(log'.ops, "get_current_texture") =>
               title' = title /\ log'.ops = <<"request_redraw">>]_vars

\* C16 amended: on every redraw, gate open or closed, the title is set first,
\* to the FPS held before the render cycle; with the gate closed the title and
\* the redraw request are all that happens.
C16_TitleBeforeCycle ==
    [][RedrawStep =>
         /\ Shows(title', frame_counter.last_fps)
         /\ Head(log'.ops) = "set_title"
         /\ ~Has(log'.ops, "get_current_texture") =>
               /\ log'.ops = <<"set_title", "request_redraw">>
               /\ redraw_pending'
               /\ UNCHANGED <<now, status, frame_counter, config,
                              surface_config, last_frame_time, hist>>]_vars

\* C16 witness: after a render cycle that committed a sample the title does
\* not show the FPS now held
C16_Witness ==
    /\ log.kind = "redraw"
    /\ log.acquire = "Ok"
    /\ log.update_at = frame_counter.last_printed_instant
    /\ ~Shows(title, frame_counter.last_fps)

\* C17: no more than 30 render cycles run within an interval of 1000 ms.
C17_ThirtyPerSecond == hist.cap_count <= FPS

\* C18: last_frame_time changes only when the gate fires, to the time of that
\* redraw; a redraw that finds the gate closed and a resize leave it and the
\* FrameCounter as they are and acquire nothing.
C18_GateFiresToNow ==
    [][status = "running" =>
         /\ last_frame_time' # last_frame_time =>
               /\ RedrawStep
               /\ Has(log'.ops, "get_current_texture")
               /\ last_frame_time' = now
         /\ RedrawStep /\ now - last_frame_time < FRAME_DURATION =>
               /\ UNCHANGED <<last_frame_time, frame_counter>>
               /\ ~Has(log'.ops, "get_current_texture")
         /\ ResizeStep =>
               /\ UNCHANGED <<last_frame_time, frame_counter>>
               /\ ~Has(log'.ops, "get_current_texture")]_vars

\* C18 witness: the gate fired later than one period after the last firing
C18_Witness ==
    /\ log.kind = "redraw"
    /\ Has(log.ops, "get_current_texture")
    /\ log.duration > FRAME_DURATION
    /\ hist.updates >= 2

\* C19: every committed sample was divided by a frame count >= 1.
C19_DivisorPositive ==
    /\ frame_counter.last_frame_time.d >= 1
    /\ hist.committed => frame_counter.last_fps.n >= MILLIS_PER_SEC

\* C19 witness: the first update() came more than a second after construction
C19_Witness == hist.committed /\ hist.updates = 1

\* C20: unless a close notification arrives render cycles never stop: the loop
\* is still running, or was closed.
C20_LoopStaysAlive ==
    status \in {"constructed", "running"} \/ log.kind = "close"

====
